---- MODULE Spec2Model ----
(***************************************************************************)
(* State-machine model of src/main.py: the QQQ quote collector that        *)
(* aggregates Finnhub trade ticks into three-minute OHLCV summaries,       *)
(* posts them to Slack and reconnects its WebSocket with a retry policy.   *)
(*                                                                         *)
(* The main flow is modelled statement group by statement group (pc), so   *)
(* that the asynchronous signal handler can run between any two of them.   *)
(* Time is one integer clock, in seconds since Monday 00:00 exchange-local *)
(* time; it advances only where the program blocks (time.sleep, the        *)
(* receive loop of run_forever).                                           *)
(*                                                                         *)
(* signal_handler is one step: it runs to its end in the main thread and   *)
(* sys.exit(0) then ends the process at the interrupted statement.         *)
(* run_forever reports transport failures through on_error and on_close    *)
(* and returns; an Exception reaches line 220 only from the start of an    *)
(* attempt.  send_to_slack either succeeds or catches SlackApiError.       *)
(* An exception raised inside a callback is caught and logged by           *)
(* run_forever, which goes on reading.                                     *)
(*                                                                         *)
(* Spec is the program on a feed of well-formed messages, started in the   *)
(* morning.  SpecFull adds the messages that are not trade data and the    *)
(* start shortly before the market closes.  SpecGate starts the program    *)
(* at times all over the week and runs the closed-market branch alone.     *)
(* The variables sent and hist are history variables: the program never    *)
(* reads them.                                                             *)
(***************************************************************************)
EXTENDS Integers, Sequences, FiniteSets, TLC

\* ---------------------------------------------------------------- constants

MAX_RETRIES == 3
RETRY_DELAY == 60
FLUSH_INTERVAL == 180
BACKOFF_CAP == 300
COOLDOWN == 300
RETRY_SLEEP == 5
CLOSED_SLEEP == 60
MARKET_OPEN_SEC == 34200
MARKET_CLOSE_SEC == 57600
DAY == 86400

\* ------------------------------------------------------------------- bounds

\* Start of the run, Monday 09:26:00: the market is closed for four minutes.
ClosedStart == 33960
\* Start of the run, Monday 09:30:00: the market is open.
OpenStart == 34200
\* The clock stops advancing here.
MaxTime == 34920
\* Seconds the receive loop may block between two events.
WaitStep == 180
\* Connection attempts in a whole run.
MaxDials == 3
\* Ticks delivered in a whole run, and in one message.
MaxTicks == 3
MaxMsgLen == 2
\* Start of the run in SpecFull, Monday 15:57:00, three minutes before the
\* market closes, and the time its clock stops.
LateStart == 57420
MaxTimeLate == 57960
\* Attempt counts the backoff formula is evaluated for.
MaxBackoffN == 8

\* The ticks the feed may deliver: price, optional volume, timestamp in
\* milliseconds (not in arrival order).
TickPool ==
    { [p |-> 100, v |-> 10, t |-> 34260000],
      [p |-> 105, t |-> 34200500] }

\* What else the feed may deliver in SpecFull: an item without a price.
BadItems == { [v |-> 5, t |-> 34260000] }

\* ---------------------------------------------------------------- variables

VARIABLES
    running,                  \* global running
    ws_instance,              \* global ws_instance: state of the WebSocketApp
    batch_data,               \* global batch_data
    last_sent_time,           \* global last_sent_time
    last_connection_attempt,  \* global last_connection_attempt
    connection_attempts,      \* global connection_attempts
    now,                      \* time.time()
    pc,                       \* position of the main flow
    current_time,             \* local of process_batch_and_send
    pending,                  \* on_message: items of data["data"] not yet appended
    ret,                      \* where process_batch_and_send returns to
    sent,                     \* history: the send_to_slack call of the flush in progress
    hist                      \* history: what the claims need to remember

vars == <<running, ws_instance, batch_data, last_sent_time,
          last_connection_attempt, connection_attempts, now, pc,
          current_time, pending, ret, sent, hist>>

\* ------------------------------------------------------------------ helpers

Min(a, b) == IF a <= b THEN a ELSE b

RECURSIVE Pow2(_)
Pow2(n) == IF n <= 0 THEN 1 ELSE 2 * Pow2(n - 1)

RECURSIVE MaxOf(_)
MaxOf(s) ==
    IF Len(s) = 1 THEN s[1]
    ELSE LET m == MaxOf(Tail(s)) IN IF s[1] >= m THEN s[1] ELSE m

RECURSIVE MinOf(_)
MinOf(s) ==
    IF Len(s) = 1 THEN s[1]
    ELSE LET m == MinOf(Tail(s)) IN IF s[1] <= m THEN s[1] ELSE m

RECURSIVE SumOf(_)
SumOf(s) == IF s = <<>> THEN 0 ELSE s[1] + SumOf(Tail(s))

\* datetime.fromtimestamp(x).strftime("%H:%M:%S"): the time of day, the date
\* dropped, kept as seconds since midnight.
strftime(sec) == sec % DAY

\* A slip C16 must catch: the closing second left out.
is_market_open_before_close(t) ==
    LET weekday == (t \div DAY) % 7
        tod == t % DAY
    IN  IF weekday >= 5 THEN FALSE
        ELSE MARKET_OPEN_SEC <= tod /\ tod < MARKET_CLOSE_SEC

\* is_market_open(): weekday below 5 and 09:30:00 <= now <= 16:00:00.
is_market_open(t) ==
    LET weekday == (t \div DAY) % 7
        tod == t % DAY
    IN  IF weekday >= 5 THEN FALSE
        ELSE MARKET_OPEN_SEC <= tod /\ tod <= MARKET_CLOSE_SEC

\* item.get("v", 0)
VolumeOf(item) == IF "v" \in DOMAIN item THEN item.v ELSE 0

prices(batch) == [i \in 1..Len(batch) |-> batch[i].p]
volumes(batch) == [i \in 1..Len(batch) |-> VolumeOf(batch[i])]
timestamps(batch) == [i \in 1..Len(batch) |-> batch[i].t \div 1000]

\* A slip C2 must catch: the open taken from the earliest timestamp.
open_price_by_timestamp(batch) ==
    LET i == CHOOSE k \in 1..Len(batch) :
                 \A j \in 1..Len(batch) : batch[k].t <= batch[j].t
    IN  prices(batch)[i]

open_price(batch) == prices(batch)[1]
high_price(batch) == MaxOf(prices(batch))
low_price(batch) == MinOf(prices(batch))
close_price(batch) == prices(batch)[Len(batch)]
total_volume(batch) == SumOf(volumes(batch))

\* A slip C11 must catch: the empty summary stamped with the flush time at
\* both ends.
BuildMessageOneStamp(batch, lst, ct) ==
    IF batch = <<>>
    THEN [kind |-> "no_trades",
          start |-> strftime(ct),
          end |-> strftime(ct)]
    ELSE [kind |-> "ohlc",
          start |-> strftime(timestamps(batch)[1]),
          end |-> strftime(timestamps(batch)[Len(batch)]),
          open |-> open_price(batch),
          high |-> high_price(batch),
          low |-> low_price(batch),
          close |-> close_price(batch),
          volume |-> total_volume(batch)]

\* The message process_batch_and_send builds, field by field.
BuildMessage(batch, lst, ct) ==
    IF batch = <<>>
    THEN [kind |-> "no_trades",
          start |-> strftime(lst),
          end |-> strftime(ct)]
    ELSE [kind |-> "ohlc",
          start |-> strftime(timestamps(batch)[1]),
          end |-> strftime(timestamps(batch)[Len(batch)]),
          open |-> open_price(batch),
          high |-> high_price(batch),
          low |-> low_price(batch),
          close |-> close_price(batch),
          volume |-> total_volume(batch)]

\* A slip C6 must catch: the exponent one too high.
BackoffDoubled(n) == Min(BACKOFF_CAP, RETRY_DELAY * Pow2(n))

\* min(300, RETRY_DELAY * (2 ** (connection_attempts - 1)))
Backoff(n) == Min(BACKOFF_CAP, RETRY_DELAY * Pow2(n - 1))

\* uniform(0, 0.1 * backoff): the two ends of the interval.
Jitters(backoff) == {0, backoff \div 10}

\* --------------------------------------------------------------------- Init

NoSend == [by |-> "none"]

\* The history variables at the start.
InitHist ==
    [opened |-> FALSE,      \* on_open fired in the current attempt
    err429 |-> FALSE,      \* the last attempt saw a 429 error
    failStreak |-> 0,      \* attempts ended in a row without on_open
    cooled |-> FALSE,      \* the cooldown ran since the last dial
    backoffN |-> 0,        \* attempt count the last backoff used
    backoff |-> 0,         \* its backoff term
    jitter |-> 0,          \* its jitter
    dials |-> 0,           \* connection attempts so far
    ingested |-> 0,        \* ticks appended so far
    carried |-> FALSE,     \* no tick appended since the last dial
    windowSends |-> 0,     \* sends since last_sent_time was set
    sentCount |-> [i \in 1..MaxTicks |-> 0],
                           \* sends that included tick i
    flushedIds |-> {}]     \* ticks cleared by a reset of the window

Init ==
    /\ running = TRUE
    /\ ws_instance = "None"
    /\ batch_data = <<>>
    /\ now \in {ClosedStart, OpenStart}
    /\ last_sent_time = now
    /\ last_connection_attempt = 0
    /\ connection_attempts = 0
    /\ pc = "main_loop"
    /\ current_time = 0
    /\ pending = <<>>
    /\ ret = "none"
    /\ sent = NoSend
    /\ hist = InitHist

\* time.sleep(d), and any other blocking for d seconds.
\* The clock stops at the end of the run that was started.
TimeCap(t) == IF t >= LateStart THEN MaxTimeLate ELSE MaxTime

Sleep(d) == now + d <= TimeCap(now) /\ now' = now + d

\* The history of one send_to_slack call: who flushed, the window flushed,
\* the message, whether chat_postMessage succeeded, whether line 124 ran.
SentEntry(by, batch, lst, ct, ok) ==
    [by |-> by, windowStart |-> lst, at |-> ct, batch |-> batch,
     msg |-> BuildMessage(batch, lst, ct), delivered |-> ok,
     completed |-> FALSE]

Ids(batch) == {batch[i].id : i \in 1..Len(batch)}

NoteSend(h, batch) ==
    [h EXCEPT !.windowSends = @ + 1,
              !.sentCount = [i \in 1..MaxTicks |->
                                IF i \in Ids(batch) THEN @[i] + 1 ELSE @[i]]]

\* item["p"] and item["t"] / 1000 (lines 101, 103) raise KeyError on an item
\* without the key.
IsTick(item) == "p" \in DOMAIN item /\ "t" \in DOMAIN item

Flushable(batch) == \A i \in 1..Len(batch) : IsTick(batch[i])

\* --------------------------------------------------- process_batch_and_send

\* lines 86-88
pb_enter ==
    /\ pc = "pb_enter"
    /\ current_time' = now
    /\ pc' = "pb_send"
    /\ UNCHANGED <<running, ws_instance, batch_data, last_sent_time,
                   last_connection_attempt, connection_attempts, now,
                   pending, ret, sent, hist>>

\* lines 90-121: the message is built and handed to send_to_slack, whose
\* SlackApiError is caught and logged (lines 76-80).
pb_send ==
    /\ pc = "pb_send"
    /\ Flushable(batch_data)
    /\ \E ok \in BOOLEAN :
           sent' = SentEntry("main", batch_data, last_sent_time,
                             current_time, ok)
    /\ hist' = NoteSend(hist, batch_data)
    /\ pc' = "pb_reset"
    /\ UNCHANGED <<running, ws_instance, batch_data, last_sent_time,
                   last_connection_attempt, connection_attempts, now,
                   current_time, pending, ret>>

\* lines 101-103 raise KeyError: nothing is sent, lines 124-125 do not run
pb_raise ==
    /\ pc = "pb_send"
    /\ ~Flushable(batch_data)
    /\ pc' = "pb_raised"
    /\ UNCHANGED <<running, ws_instance, batch_data, last_sent_time,
                   last_connection_attempt, connection_attempts, now,
                   current_time, pending, ret, sent, hist>>

\* The KeyError leaves process_batch_and_send: inside on_message it is
\* caught and logged by run_forever, at line 251 nothing catches it and the
\* process ends.
pb_unwind ==
    /\ pc = "pb_raised"
    /\ pc' = IF ret = "run_forever" THEN "run_forever" ELSE "exited"
    /\ ret' = "none"
    /\ current_time' = 0
    /\ UNCHANGED <<running, ws_instance, batch_data, last_sent_time,
                   last_connection_attempt, connection_attempts, now,
                   pending, sent, hist>>

\* A slip C10 must catch: the window is not emptied.
pb_reset_skipped ==
    /\ pc = "pb_reset"
    /\ sent' = [sent EXCEPT !.completed = TRUE]
    /\ pc' = "pb_stamp"
    /\ UNCHANGED <<running, ws_instance, batch_data, last_sent_time,
                   last_connection_attempt, connection_attempts, now,
                   current_time, pending, ret, hist>>

\* line 124
pb_reset ==
    /\ pc = "pb_reset"
    /\ batch_data' = <<>>
    /\ sent' = [sent EXCEPT !.completed = TRUE]
    /\ hist' = [hist EXCEPT !.flushedIds = @ \cup Ids(batch_data)]
    /\ pc' = "pb_stamp"
    /\ UNCHANGED <<running, ws_instance, last_sent_time,
                   last_connection_attempt, connection_attempts, now,
                   current_time, pending, ret>>

\* line 125
pb_stamp ==
    /\ pc = "pb_stamp"
    /\ last_sent_time' = current_time
    /\ hist' = [hist EXCEPT !.windowSends = 0]
    /\ pc' = "pb_return"
    /\ UNCHANGED <<running, ws_instance, batch_data,
                   last_connection_attempt, connection_attempts, now,
                   current_time, pending, ret, sent>>

\* the return to the caller, which ends the life of the locals
pb_return ==
    /\ pc = "pb_return"
    /\ pc' = ret
    /\ ret' = "none"
    /\ current_time' = 0
    /\ sent' = NoSend
    /\ UNCHANGED <<running, ws_instance, batch_data, last_sent_time,
                   last_connection_attempt, connection_attempts, now,
                   pending, hist>>

\* --------------------------------------------------------------- on_message

\* The messages the feed may send: trade data, or anything else (a ping).
Messages ==
    { [data |-> d] : d \in UNION { [1..n -> TickPool] : n \in 1..MaxMsgLen } }
        \cup { [type |-> "ping"] }

\* What else it may send in SpecFull: text that is not JSON, and trade
\* data with an item that has no price.
Unparseable == [raw |-> "<html>"]

BadMessages ==
    { Unparseable }
        \cup { [data |-> d] :
                   d \in UNION { [1..n -> TickPool \cup BadItems] \
                                      [1..n -> TickPool] : n \in 1..MaxMsgLen } }

\* lines 131-132, called by run_forever for an inbound message; json.loads
\* raises on text that is not JSON, which ends the callback
on_message(message) ==
    /\ pc = "run_forever"
    /\ ws_instance = "open"
    /\ IF message = Unparseable
       THEN UNCHANGED <<pending, pc>>
       ELSE IF "data" \in DOMAIN message
       THEN /\ hist.ingested + Len(message.data) <= MaxTicks
            /\ pending' = message.data
            /\ pc' = "msg_append"
       ELSE UNCHANGED <<pending, pc>>
    /\ UNCHANGED <<running, ws_instance, batch_data, last_sent_time,
                   last_connection_attempt, connection_attempts, now,
                   current_time, ret, sent, hist>>

\* lines 133-134, one item per step; id is the tick's arrival number
msg_append ==
    /\ pc = "msg_append"
    /\ IF pending # <<>>
       THEN /\ batch_data' = Append(batch_data,
                   [id |-> hist.ingested + 1] @@ Head(pending))
            /\ pending' = Tail(pending)
            /\ hist' = [hist EXCEPT !.ingested = @ + 1, !.carried = FALSE]
            /\ UNCHANGED pc
       ELSE /\ pc' = "msg_check"
            /\ UNCHANGED <<batch_data, pending, hist>>
    /\ UNCHANGED <<running, ws_instance, last_sent_time,
                   last_connection_attempt, connection_attempts, now,
                   current_time, ret, sent>>

\* A slip C17 must catch: the window flushed only when older than 180 s.
msg_check_after_interval ==
    /\ pc = "msg_check"
    /\ IF now - last_sent_time > FLUSH_INTERVAL
       THEN pc' = "pb_enter" /\ ret' = "run_forever"
       ELSE pc' = "run_forever" /\ UNCHANGED ret
    /\ UNCHANGED <<running, ws_instance, batch_data, last_sent_time,
                   last_connection_attempt, connection_attempts, now,
                   current_time, pending, sent, hist>>

\* lines 137-139
msg_check ==
    /\ pc = "msg_check"
    /\ IF now - last_sent_time >= FLUSH_INTERVAL
       THEN pc' = "pb_enter" /\ ret' = "run_forever"
       ELSE pc' = "run_forever" /\ UNCHANGED ret
    /\ UNCHANGED <<running, ws_instance, batch_data, last_sent_time,
                   last_connection_attempt, connection_attempts, now,
                   current_time, pending, sent, hist>>

\* ------------------------------------------- on_open, on_error, on_close

\* A slip C9 must catch: a new connection starts a new window.
on_open_clears_window ==
    /\ pc = "run_forever"
    /\ ws_instance = "new"
    /\ ws_instance' = "open"
    /\ connection_attempts' = 0
    /\ batch_data' = <<>>
    /\ hist' = [hist EXCEPT !.opened = TRUE, !.failStreak = 0]
    /\ UNCHANGED <<running, last_sent_time, last_connection_attempt, now,
                   pc, current_time, pending, ret, sent>>

\* lines 157-161, called by run_forever once the handshake is done
on_open ==
    /\ pc = "run_forever"
    /\ ws_instance = "new"
    /\ ws_instance' = "open"
    /\ connection_attempts' = 0
    /\ hist' = [hist EXCEPT !.opened = TRUE, !.failStreak = 0]
    /\ UNCHANGED <<running, batch_data, last_sent_time,
                   last_connection_attempt, now, pc, current_time, pending,
                   ret, sent>>

\* The transport errors of the feed: rate limiting (HTTP 429) or any other.
Errors == {"Handshake status 429 Too Many Requests", "Connection reset"}

\* "429" in str(error)
Has429(error) == error = "Handshake status 429 Too Many Requests"

\* lines 143-149, called by run_forever on a transport error, which ends
\* the connection
on_error(error) ==
    /\ pc = "run_forever"
    /\ ws_instance \in {"new", "open"}
    /\ ws_instance' = "errored"
    /\ IF Has429(error)
       THEN /\ connection_attempts' = connection_attempts + 1
            /\ hist' = [hist EXCEPT !.err429 = TRUE]
       ELSE UNCHANGED <<connection_attempts, hist>>
    /\ UNCHANGED <<running, batch_data, last_sent_time,
                   last_connection_attempt, now, pc, current_time, pending,
                   ret, sent>>

\* The history at the end of an attempt.
AttemptEnded(h) ==
    [h EXCEPT !.failStreak = IF h.opened THEN 0 ELSE Min(@ + 1, MAX_RETRIES)]

\* lines 152-153, called by run_forever when the connection is closed by
\* the upstream or after an error; run_forever then returns
on_close ==
    /\ pc = "run_forever"
    /\ ws_instance \in {"open", "errored"}
    /\ ws_instance' = "closed"
    /\ hist' = AttemptEnded(hist)
    /\ pc' = "ws_reset"
    /\ UNCHANGED <<running, batch_data, last_sent_time,
                   last_connection_attempt, connection_attempts, now,
                   current_time, pending, ret, sent>>

\* run_forever blocks WaitStep seconds with nothing to read
Wait ==
    /\ pc = "run_forever"
    /\ ws_instance \in {"new", "open"}
    /\ Sleep(WaitStep)
    /\ UNCHANGED <<running, ws_instance, batch_data, last_sent_time,
                   last_connection_attempt, connection_attempts, pc,
                   current_time, pending, ret, sent, hist>>

\* ------------------------------------------------------------ run_websocket

\* line 180
ws_loop ==
    /\ pc = "ws_loop"
    /\ pc' = IF running THEN "ws_floor" ELSE "main_loop"
    /\ UNCHANGED <<running, ws_instance, batch_data, last_sent_time,
                   last_connection_attempt, connection_attempts, now,
                   current_time, pending, ret, sent, hist>>

\* A slip C7 must catch: no floor wait.
sleep_time_none(time_since_last_attempt) == 0

\* line 187
sleep_time(time_since_last_attempt) == RETRY_DELAY - time_since_last_attempt

\* lines 182-189: the floor between two attempts
ws_floor ==
    /\ pc = "ws_floor"
    /\ LET time_since_last_attempt == now - last_connection_attempt
       IN  IF time_since_last_attempt < RETRY_DELAY
           THEN Sleep(sleep_time(time_since_last_attempt))
           ELSE UNCHANGED now
    /\ pc' = "ws_backoff"
    /\ UNCHANGED <<running, ws_instance, batch_data, last_sent_time,
                   last_connection_attempt, connection_attempts,
                   current_time, pending, ret, sent, hist>>

\* lines 192-200: the exponential backoff
ws_backoff ==
    /\ pc = "ws_backoff"
    /\ IF connection_attempts > 0
       THEN LET backoff == Backoff(connection_attempts)
            IN  \E jitter \in Jitters(backoff) :
                    /\ Sleep(backoff + jitter)
                    /\ hist' = [hist EXCEPT
                                   !.backoffN = connection_attempts,
                                   !.backoff = backoff,
                                   !.jitter = jitter]
       ELSE /\ hist' = [hist EXCEPT !.backoffN = 0, !.backoff = 0,
                                    !.jitter = 0]
            /\ UNCHANGED now
    /\ pc' = "ws_record"
    /\ UNCHANGED <<running, ws_instance, batch_data, last_sent_time,
                   last_connection_attempt, connection_attempts,
                   current_time, pending, ret, sent>>

\* lines 202-203
ws_record ==
    /\ pc = "ws_record"
    /\ last_connection_attempt' = now
    /\ connection_attempts' = connection_attempts + 1
    /\ hist' = [hist EXCEPT !.cooled = FALSE, !.backoffN = 0,
                            !.backoff = 0, !.jitter = 0]
    /\ pc' = "ws_dial"
    /\ UNCHANGED <<running, ws_instance, batch_data, last_sent_time, now,
                   current_time, pending, ret, sent>>

\* lines 205-215: the WebSocketApp is made and run_forever started; an
\* Exception may leave the try block here instead
ws_dial ==
    /\ pc = "ws_dial"
    /\ hist.dials < MaxDials
    /\ ws_instance' = "new"
    /\ \E raised \in BOOLEAN :
           LET h == [hist EXCEPT !.dials = @ + 1,
                                 !.opened = FALSE, !.err429 = FALSE,
                                 !.carried = batch_data # <<>>]
           IN  IF raised
               THEN pc' = "ws_except" /\ hist' = AttemptEnded(h)
               ELSE pc' = "run_forever" /\ hist' = h
    /\ UNCHANGED <<running, batch_data, last_sent_time,
                   last_connection_attempt, connection_attempts, now,
                   current_time, pending, ret, sent>>

\* A slip C19 must catch: the count is kept when the connection never opened.
ws_reset_if_opened ==
    /\ pc = "ws_reset"
    /\ connection_attempts' = IF hist.opened THEN 0 ELSE connection_attempts
    /\ pc' = "ws_loop"
    /\ UNCHANGED <<running, ws_instance, batch_data, last_sent_time,
                   last_connection_attempt, now, current_time, pending,
                   ret, sent, hist>>

\* line 218, after run_forever has returned
ws_reset ==
    /\ pc = "ws_reset"
    /\ connection_attempts' = 0
    /\ pc' = "ws_loop"
    /\ UNCHANGED <<running, ws_instance, batch_data, last_sent_time,
                   last_connection_attempt, now, current_time, pending,
                   ret, sent, hist>>

\* lines 220-232
ws_except ==
    /\ pc = "ws_except"
    /\ IF ~running
       THEN /\ pc' = "main_loop"
            /\ UNCHANGED <<connection_attempts, now, hist>>
       ELSE /\ pc' = "ws_loop"
            /\ IF connection_attempts >= MAX_RETRIES
               THEN /\ Sleep(COOLDOWN)
                    /\ connection_attempts' = 0
                    /\ hist' = [hist EXCEPT !.cooled = TRUE,
                                            !.failStreak = 0]
               ELSE /\ Sleep(RETRY_SLEEP)
                    /\ UNCHANGED <<connection_attempts, hist>>
    /\ UNCHANGED <<running, ws_instance, batch_data, last_sent_time,
                   last_connection_attempt, current_time, pending, ret,
                   sent>>

\* ----------------------------------------------------------- signal_handler

\* A slip C3 must catch: an overdue, empty window is not flushed.
final_flush_due_nonempty_only(batch, t, lst) == batch # <<>>

\* line 171
final_flush_due(batch, t, lst) ==
    batch # <<>> \/ t - lst >= FLUSH_INTERVAL

\* A slip C15 must catch: the handler sets the flag, closes and flushes, but
\* leaves it to the loops to see the flag.
signal_handler_no_exit ==
    /\ pc # "exited"
    /\ running
    /\ running' = FALSE
    /\ ws_instance' = IF ws_instance = "None" THEN "None" ELSE "closed"
    /\ IF final_flush_due(batch_data, now, last_sent_time)
          /\ Flushable(batch_data)
       THEN /\ \E ok \in BOOLEAN :
                   sent' = [SentEntry("signal", batch_data, last_sent_time,
                                      now, ok) EXCEPT !.completed = TRUE]
            /\ batch_data' = <<>>
            /\ last_sent_time' = now
            /\ hist' = [NoteSend(hist, batch_data) EXCEPT
                           !.flushedIds = @ \cup Ids(batch_data)]
       ELSE UNCHANGED <<sent, batch_data, last_sent_time, hist>>
    /\ UNCHANGED <<last_connection_attempt, connection_attempts, now,
                   current_time, pending, ret, pc>>

\* Where the main flow goes on when the handler's flush raises KeyError at
\* the statement it interrupted: to the except clause of line 220 from the
\* try block, to the end of run_forever (the handler has closed the
\* connection) from inside it, and out of the program from anywhere else.
AfterHandlerRaise(at, back) ==
    IF at \in {"ws_floor", "ws_backoff", "ws_record", "ws_dial", "ws_reset"}
    THEN "ws_except"
    ELSE IF at \in {"run_forever", "msg_append", "msg_check"}
            \/ (at \in {"pb_enter", "pb_send", "pb_raised", "pb_reset",
                         "pb_stamp", "pb_return"} /\ back = "run_forever")
    THEN "ws_reset"
    ELSE "exited"

\* lines 165-173. The handler runs to its end between two steps of the main
\* flow; sys.exit(0) then ends the process where it was interrupted.
signal_handler ==
    /\ pc # "exited"
    /\ running
    /\ running' = FALSE
    /\ ws_instance' = IF ws_instance = "None" THEN "None" ELSE "closed"
    /\ IF ~final_flush_due(batch_data, now, last_sent_time)
       THEN /\ pc' = "exited"
            /\ UNCHANGED <<sent, batch_data, last_sent_time, hist>>
       ELSE IF Flushable(batch_data)
       THEN /\ \E ok \in BOOLEAN :
                   sent' = [SentEntry("signal", batch_data, last_sent_time,
                                      now, ok) EXCEPT !.completed = TRUE]
            /\ batch_data' = <<>>
            /\ last_sent_time' = now
            /\ hist' = [NoteSend(hist, batch_data) EXCEPT
                           !.flushedIds = @ \cup Ids(batch_data)]
            /\ pc' = "exited"
       ELSE /\ pc' = AfterHandlerRaise(pc, ret)
            /\ UNCHANGED <<sent, batch_data, last_sent_time, hist>>
    /\ UNCHANGED <<last_connection_attempt, connection_attempts, now,
                   current_time, pending, ret>>

\* ----------------------------------------------------------------- __main__

\* lines 242-247
main_loop ==
    /\ pc = "main_loop"
    /\ pc' = IF ~running THEN "exited"
             ELSE IF is_market_open(now) THEN "ws_loop"
             ELSE "closed_check"
    /\ UNCHANGED <<running, ws_instance, batch_data, last_sent_time,
                   last_connection_attempt, connection_attempts, now,
                   current_time, pending, ret, sent, hist>>

\* A slip C20 must catch: the closed-market branch flushes on every round.
closed_check_every_round ==
    /\ pc = "closed_check"
    /\ pc' = "pb_enter"
    /\ ret' = "closed_sleep"
    /\ UNCHANGED <<running, ws_instance, batch_data, last_sent_time,
                   last_connection_attempt, connection_attempts, now,
                   current_time, pending, sent, hist>>

\* lines 249-251
closed_check ==
    /\ pc = "closed_check"
    /\ IF now - last_sent_time >= FLUSH_INTERVAL
       THEN pc' = "pb_enter" /\ ret' = "closed_sleep"
       ELSE pc' = "closed_sleep" /\ UNCHANGED ret
    /\ UNCHANGED <<running, ws_instance, batch_data, last_sent_time,
                   last_connection_attempt, connection_attempts, now,
                   current_time, pending, sent, hist>>

\* line 252
closed_sleep ==
    /\ pc = "closed_sleep"
    /\ Sleep(CLOSED_SLEEP)
    /\ pc' = "main_loop"
    /\ UNCHANGED <<running, ws_instance, batch_data, last_sent_time,
                   last_connection_attempt, connection_attempts,
                   current_time, pending, ret, sent, hist>>

\* --------------------------------------------------------------------- Spec

Next ==
    \/ main_loop
    \/ closed_check
    \/ closed_sleep
    \/ ws_loop
    \/ ws_floor
    \/ ws_backoff
    \/ ws_record
    \/ ws_dial
    \/ ws_reset
    \/ ws_except
    \/ on_open
    \/ \E message \in Messages : on_message(message)
    \/ msg_append
    \/ msg_check
    \/ \E error \in Errors : on_error(error)
    \/ on_close
    \/ Wait
    \/ pb_enter
    \/ pb_send
    \/ pb_reset
    \/ pb_stamp
    \/ pb_return
    \/ signal_handler

Spec == Init /\ [][Next]_vars

\* Start of the run, Monday 15:57:00: the market closes three minutes later.
InitFull ==
    /\ now \in {ClosedStart, OpenStart, LateStart}
    /\ running = TRUE
    /\ ws_instance = "None"
    /\ batch_data = <<>>
    /\ last_sent_time = now
    /\ last_connection_attempt = 0
    /\ connection_attempts = 0
    /\ pc = "main_loop"
    /\ current_time = 0
    /\ pending = <<>>
    /\ ret = "none"
    /\ sent = NoSend
    /\ hist = InitHist

NextFull ==
    \/ Next
    \/ \E message \in BadMessages : on_message(message)
    \/ pb_raise
    \/ pb_unwind

SpecFull == InitFull /\ [][NextFull]_vars

\* Times of day the program is started at in SpecGate: midnight, the
\* seconds around 09:30:00 and 16:00:00, noon, the last second of the day;
\* on each day of the week, Monday = 0.
GateTods == {0, 34199, 34200, 34201, 43200, 57599, 57600, 57601, 86399}

GateTimes == {d * DAY + tod : d \in 0..6, tod \in GateTods}

InitGate ==
    /\ now \in GateTimes
    /\ running = TRUE
    /\ ws_instance = "None"
    /\ batch_data = <<>>
    /\ last_sent_time = now
    /\ last_connection_attempt = 0
    /\ connection_attempts = 0
    /\ pc = "main_loop"
    /\ current_time = 0
    /\ pending = <<>>
    /\ ret = "none"
    /\ sent = NoSend
    /\ hist = InitHist

\* The main loop up to the call of run_websocket or of the flush.
NextGate ==
    \/ main_loop
    \/ closed_check
    \/ closed_sleep

SpecGate == InitGate /\ [][NextGate]_vars

\* ========================================================== claims C1..C10

\* C1: no ingested tick is lost or counted twice across a flush boundary:
\* every tick is part of at most one message handed to send_to_slack, every
\* tick cleared from the window was part of one, and no window's summary is
\* handed to send_to_slack twice.
C1_NoLossNoDuplicate ==
    /\ \A i \in 1..MaxTicks : hist.sentCount[i] <= 1
    /\ \A i \in hist.flushedIds : hist.sentCount[i] >= 1
    /\ hist.windowSends <= 1

\* The volume of a batch, summed from its last tick to its first.
RECURSIVE VolumeUpTo(_, _)
VolumeUpTo(b, n) ==
    IF n = 0 THEN 0
    ELSE (IF "v" \in DOMAIN b[n] THEN b[n].v ELSE 0) + VolumeUpTo(b, n - 1)

\* C2: the summary of a non-empty window has open = price of the first tick
\* appended, close = price of the last, high and low = the largest and the
\* smallest price, volume = the sum of the volumes (an absent one counts 0),
\* and start and end = the timestamps of the first and the last tick, as
\* times of day; arrival order decides, not the timestamps.
C2_Summary ==
    (sent.by # "none" /\ sent.batch # <<>>) =>
        LET b == sent.batch
            m == sent.msg
            n == Len(sent.batch)
        IN  /\ m.kind = "ohlc"
            /\ m.open = b[1].p
            /\ m.close = b[n].p
            /\ \A i \in 1..n : m.low <= b[i].p /\ b[i].p <= m.high
            /\ \E i \in 1..n : m.high = b[i].p
            /\ \E i \in 1..n : m.low = b[i].p
            /\ m.volume = VolumeUpTo(b, n)
            /\ m.start = (b[1].t \div 1000) % DAY
            /\ m.end = (b[n].t \div 1000) % DAY

\* A window whose first tick carries a later timestamp than its last one,
\* with a tick that has no volume, was summarised.
C2_Witness ==
    /\ sent.by = "main"
    /\ Len(sent.batch) >= 2
    /\ sent.batch[1].t > sent.batch[Len(sent.batch)].t
    /\ \E i \in 1..Len(sent.batch) : "v" \notin DOMAIN sent.batch[i]
    /\ sent.msg.open # sent.msg.close

\* C3: the shutdown signal makes exactly one flush when the window holds a
\* tick or is overdue and none otherwise, wherever it interrupts the main
\* flow, and the process then exits without any further flush.
C3_ShutdownFlush ==
    /\ [][(running /\ ~running') =>
            /\ pc' = "exited"
            /\ IF batch_data # <<>> \/ now - last_sent_time >= FLUSH_INTERVAL
               THEN /\ sent'.by = "signal"
                    /\ sent'.batch = batch_data
                    /\ hist'.windowSends = hist.windowSends + 1
               ELSE UNCHANGED <<sent, hist>>]_vars
    /\ [][~running => UNCHANGED <<sent, hist>>]_vars

\* The signal arrived right after the main flow had sent a summary and
\* before it reset the window; the handler flushed once and the process
\* exited.
C3_Witness ==
    /\ pc = "exited"
    /\ sent.by = "signal"
    /\ sent.batch # <<>>
    /\ hist.windowSends = 2

\* C4: after three attempts in a row that ended without an open, the loop
\* goes on to nothing but the 300 s cooldown (no floor wait, backoff or new
\* attempt before it), and the attempt after a cooldown begins with
\* connection_attempts = 0.
C4_Cooldown ==
    /\ hist.failStreak >= MAX_RETRIES =>
           pc \notin {"ws_backoff", "ws_record", "ws_dial", "run_forever"}
    /\ (pc = "ws_record" /\ hist.cooled) => connection_attempts = 0

\* C5: connection_attempts goes back to 0 only by on_open of the current
\* attempt (or by the cooldown): not at the end of an attempt that never
\* opened.
C5_ResetOnlyOnOpen ==
    [][(connection_attempts > 0 /\ connection_attempts' = 0) =>
           (hist'.opened \/ hist'.cooled)]_vars

\* C6: before an attempt with prior count n >= 1 the loop waits
\* min(300, 60 * 2^(n-1)) plus a jitter in [0, backoff / 10]; the backoff
\* term never decreases with n and never exceeds 300; with count 0, and so
\* after an attempt that opened, there is no backoff.
C6_Backoff ==
    /\ pc = "ws_record" =>
           /\ hist.backoffN = connection_attempts
           /\ connection_attempts = 1 => hist.backoff = 60
           /\ connection_attempts = 2 => hist.backoff = 120
           /\ connection_attempts = 3 => hist.backoff = 240
           /\ connection_attempts >= 4 => hist.backoff = 300
           /\ connection_attempts = 0 => hist.backoff = 0 /\ hist.jitter = 0
           /\ 0 <= hist.jitter /\ 10 * hist.jitter <= hist.backoff
           /\ hist.opened => connection_attempts = 0
    /\ \A n \in 1..MaxBackoffN :
           /\ Backoff(n) <= Backoff(n + 1)
           /\ Backoff(n) <= 300
           /\ Backoff(n) = IF n >= 4 THEN 300 ELSE 60 * Pow2(n - 1)

\* The loop waited the backoff of a second retry, with jitter.
C6_Witness ==
    /\ pc = "ws_record"
    /\ hist.backoffN = 2
    /\ hist.jitter > 0

\* C7: two consecutive attempts are at least 60 s apart, however quickly
\* the first one failed, and lines 202-203 (timestamp, count) have run when
\* the connection is dialled.
C7_Floor ==
    /\ [][(pc = "ws_record" /\ pc' = "ws_dial") =>
            /\ last_connection_attempt' = now'
            /\ now' - last_connection_attempt >= RETRY_DELAY
            /\ connection_attempts' = connection_attempts + 1]_vars
    /\ [][last_connection_attempt' # last_connection_attempt =>
            (pc = "ws_record" /\ pc' = "ws_dial")]_vars
    /\ [](pc = "ws_dial" =>
            last_connection_attempt = now /\ connection_attempts >= 1)

\* A second attempt is about to be dialled after a first one that failed
\* at once.
C7_Witness ==
    /\ pc = "ws_dial"
    /\ hist.dials = 1
    /\ hist.failStreak = 1
    /\ last_connection_attempt = now

\* C8: after an attempt that met a 429 error, the next attempt is preceded
\* by the backoff of the raised, non-zero attempt count.
C8_RateLimitBackoff ==
    (pc = "ws_record" /\ hist.err429) => hist.backoffN >= 1

\* C9: the connection's life cycle (error, close, waits, cooldown, dial,
\* open) leaves batch_data and last_sent_time alone, and only a flush
\* empties the window.
C9_WindowSurvives ==
    /\ [][(/\ running' = running
           /\ \/ pc \in {"ws_loop", "ws_floor", "ws_backoff", "ws_record",
                         "ws_dial", "ws_reset", "ws_except"}
              \/ pc = "run_forever" /\ pc' # "msg_append")
          => UNCHANGED <<batch_data, last_sent_time>>]_vars
    /\ [][(batch_data # <<>> /\ batch_data' = <<>>) =>
            (pc = "pb_reset" \/ (running /\ ~running'))]_vars

\* A new connection is open and the window still holds the ticks of the
\* connection before it.
C9_Witness ==
    /\ pc = "run_forever"
    /\ ws_instance = "open"
    /\ hist.carried
    /\ batch_data # <<>>

\* C10: when a flush ends, delivered or not, the window is empty and
\* last_sent_time is the time the flush took; the window and every later
\* summary hold no tick that a flush has cleared.
C10_FreshWindow ==
    /\ pc = "pb_return" =>
           /\ batch_data = <<>>
           /\ last_sent_time = current_time
           /\ sent.at = current_time
    /\ (pc = "exited" /\ sent.by = "signal") =>
           /\ batch_data = <<>>
           /\ last_sent_time = sent.at
    /\ Ids(batch_data) \cap hist.flushedIds = {}
    /\ (sent.by # "none" /\ ~sent.completed) =>
           Ids(sent.batch) \cap hist.flushedIds = {}

\* A second traded window has just been flushed, its delivery failed.
C10_Witness ==
    /\ pc = "pb_return"
    /\ ~sent.delivered
    /\ sent.batch # <<>>
    /\ hist.flushedIds \ Ids(sent.batch) # {}

\* ------------------------------------------------------------ claims C11..C20

\* C11: a flush of a window without ticks sends the 'no trades' summary,
\* never the traded one, whose range runs from the time of day of the
\* flush before (last_sent_time) to the time of day of this flush; the
\* flush raises nothing on its way.
C11_EmptySummary ==
    /\ (sent.by # "none" /\ sent.batch = <<>>) =>
           /\ sent.msg.kind = "no_trades"
           /\ DOMAIN sent.msg = {"kind", "start", "end"}
           /\ sent.msg.start = sent.windowStart % DAY
           /\ sent.msg.end = sent.at % DAY
           /\ sent.at >= sent.windowStart
    /\ (pc = "pb_send" /\ batch_data = <<>>) => ENABLED pb_send
    /\ (pc = "pb_raised") => batch_data # <<>>

\* An empty window has been flushed three minutes after the flush before.
C11_Witness ==
    /\ pc = "pb_return"
    /\ sent.batch = <<>>
    /\ sent.msg.kind = "no_trades"
    /\ sent.at = sent.windowStart + FLUSH_INTERVAL

\* C12: a summary whose delivery failed is not handed to send_to_slack a
\* second time; the failure does not end the process, which ends only on
\* shutdown; the flush whose delivery failed still empties the window and
\* takes its own time as last_sent_time.
C12_FailureAbsorbed ==
    /\ [][(sent.by = "main" /\ ~sent.delivered) =>
              ~(sent'.by = "signal" /\ sent'.msg = sent.msg)]_vars
    /\ [](pc = "exited" => ~running)
    /\ []((pc = "pb_return" /\ ~sent.delivered) =>
              (batch_data = <<>> /\ last_sent_time = current_time))

\* C13: a message that is not JSON, or whose "data" is not a list of ticks,
\* is skipped whole: nothing of it is taken up for the window, so every
\* item in the window or about to be appended to it is a tick; and the
\* connection stays open over it.
C13_MalformedSkipped ==
    /\ Flushable(batch_data \o pending)
    /\ (pc \in {"msg_append", "msg_check"}) => ws_instance = "open"

\* C14: in the closed-market branch the window is flushed as soon as it is
\* 180 s old, so it is younger than that when the 60 s sleep begins, and
\* the branch is run again 60 s later; and when the market has closed
\* while run_websocket was running, the connection loop does not begin
\* another round at its top but hands control back.
C14_ClosedMarketFlush ==
    /\ [](pc = "closed_sleep" => now - last_sent_time < FLUSH_INTERVAL)
    /\ [][(pc = "closed_sleep" /\ pc' = "main_loop") =>
              now' = now + CLOSED_SLEEP]_vars
    /\ [][(pc = "ws_loop" /\ running /\ ~is_market_open(now)) =>
              pc' # "ws_floor"]_vars

\* Steps the main flow still has to take to its end once running is False.
ShutdownRank(at) ==
    IF at = "exited" THEN 0
    ELSE IF at = "main_loop" THEN 1
    ELSE IF at = "ws_loop" THEN 2
    ELSE IF at \in {"ws_reset", "ws_except"} THEN 3
    ELSE 4

\* C15: once the handler has set running to False, no connection attempt
\* is begun, whatever the connection loop was doing: the time stamp and
\* the count of lines 202-203 stay as they are, nothing is dialled or
\* opened; the program is at its end or on its way out of the loops, each
\* step taking it nearer to the end, and it does not stop before the end.
C15_NoDialAfterShutdown ==
    /\ [][~running =>
              /\ last_connection_attempt' = last_connection_attempt
              /\ hist'.dials = hist.dials
              /\ pc' \notin {"ws_floor", "ws_backoff", "ws_record", "ws_dial",
                              "run_forever"}
              /\ ShutdownRank(pc') < ShutdownRank(pc)]_vars
    /\ [](~running => ShutdownRank(pc) < 4)
    /\ []((~running /\ pc # "exited") => ENABLED Next)

\* Shutdown came between two attempts, the count of failed attempts at 2.
C15_Witness ==
    /\ ~running
    /\ pc = "exited"
    /\ connection_attempts = 2
    /\ hist.dials = 2
    /\ ws_instance = "closed"

\* C16: the main loop takes the market for open exactly when the exchange's
\* day is Monday to Friday and its time of day is from 09:30:00 to
\* 16:00:00, both ends included: closed all Saturday and Sunday, open at
\* 09:30:00 and 16:00:00, closed at 09:29:59 and 16:00:01.
C16_MarketHours ==
    [][(pc = "main_loop" /\ running) =>
          LET day == now \div 86400
              hh == (now % 86400) \div 3600
              mm == ((now % 86400) % 3600) \div 60
              ss == now % 60
              from0930 == hh > 9 \/ (hh = 9 /\ mm >= 30)
              to1600 == hh < 16 \/ (hh = 16 /\ mm = 0 /\ ss = 0)
          IN  /\ pc' \in {"ws_loop", "closed_check"}
              /\ pc' = "ws_loop" <=> (day \in 0..4 /\ from0930 /\ to1600)]_vars

\* Friday 16:00:00: the market is taken for open.
C16_Witness ==
    /\ pc = "ws_loop"
    /\ now = 4 * DAY + MARKET_CLOSE_SEC

\* C17: when the age of the window is tested for a data message, every
\* tick of the message has been appended; the flush follows exactly when
\* the window is at least 180 s old, never for a younger one; and the
\* window that flush sends ends with the last tick of the message, whose
\* price is the close of the summary.
C17_AppendThenFlush ==
    /\ [](pc = "msg_check" =>
              /\ pending = <<>>
              /\ batch_data # <<>>
              /\ batch_data[Len(batch_data)].id = hist.ingested)
    /\ [][(pc = "msg_check" /\ pc' # "exited") =>
              /\ pc' \in {"pb_enter", "run_forever"}
              /\ pc' = "pb_enter" <=> now - last_sent_time >= 180
              /\ batch_data' = batch_data]_vars
    /\ []((sent.by = "main" /\ ret = "run_forever") =>
              /\ pending = <<>>
              /\ sent.batch # <<>>
              /\ sent.batch[Len(sent.batch)].id = hist.ingested
              /\ sent.msg.kind = "ohlc"
              /\ sent.msg.close = sent.batch[Len(sent.batch)].p
              /\ sent.at - sent.windowStart >= 180)

\* A message of two ticks came exactly 180 s after the flush before and was
\* flushed with the tick that was waiting in the window.
C17_Witness ==
    /\ pc = "pb_reset"
    /\ ret = "run_forever"
    /\ sent.by = "main"
    /\ Len(sent.batch) = 3
    /\ sent.at - sent.windowStart = 180
    /\ sent.msg.close = sent.batch[3].p

\* C18: no item without a price gets into the window, so the flush never
\* raises on one: every flush that has begun with a window that holds
\* items sends a summary and empties the window, and a shutdown with such
\* a window ends with the window flushed.
C18_FlushCompletes ==
    /\ \A i \in 1..Len(batch_data) : "p" \in DOMAIN batch_data[i]
    /\ pc # "pb_raised"
    /\ (pc = "pb_send" /\ batch_data # <<>>) => ENABLED pb_send
    /\ ~running => batch_data = <<>>

C20_FlushSpacing ==
    /\ [][last_sent_time' >= last_sent_time]_vars
    /\ [](pc \in {"pb_send", "pb_reset", "pb_stamp"} =>
              current_time - last_sent_time >= 180)
    /\ [](sent.by = "main" =>
              /\ sent.at - sent.windowStart >= 180
              /\ sent.at = current_time)
    /\ [][(pc = "pb_stamp" /\ pc' = "pb_return") =>
              last_sent_time' - last_sent_time >= 180]_vars

\* The second time-triggered flush in a row has just set last_sent_time,
\* 180 s after the first.
C20_Witness ==
    /\ pc = "pb_return"
    /\ sent.by = "main"
    /\ sent.windowStart >= OpenStart + 180
    /\ last_sent_time = sent.windowStart + 180

====
